---------------------------- MODULE Spec2Model ----------------------------
(***************************************************************************)
(* A model of tinyproxy's per-connection pipeline (src/src/reqs.c):        *)
(* request-line parsing, URL extraction, request emission, client-header   *)
(* rewriting, the response phase and the bidirectional relay.              *)
(*                                                                         *)
(* C strings are sequences of one-character strings; the sscanf            *)
(* conversions, snprintf truncation and tolower are computed character by  *)
(* character.                                                              *)
(***************************************************************************)
EXTENDS Integers, Sequences, FiniteSets, TLC

(***************************************************************************)
(* Characters and C-string helpers                                         *)
(***************************************************************************)
UpperChars == <<"A","B","C","D","E","F","G","H","I","J","K","L","M",
                "N","O","P","Q","R","S","T","U","V","W","X","Y","Z">>

LowerChars == <<"a","b","c","d","e","f","g","h","i","j","k","l","m",
                "n","o","p","q","r","s","t","u","v","w","x","y","z">>

DigitChars == <<"0","1","2","3","4","5","6","7","8","9">>

DigitSet == {DigitChars[i] : i \in 1..10}

\* isspace()
WhiteSpace == {" ", "\t", "\n", "\r"}

DigitVal(c) == (CHOOSE i \in 1..10 : DigitChars[i] = c) - 1

\* tolower() on one character
tolower(c) ==
    IF \E i \in 1..26 : UpperChars[i] = c
    THEN LowerChars[CHOOSE i \in 1..26 : UpperChars[i] = c]
    ELSE c

LowerStr(s) == [i \in 1..Len(s) |-> tolower(s[i])]

\* strcasecmp(a, b) == 0
strcaseeq(a, b) == LowerStr(a) = LowerStr(b)

Take(s, n) == SubSeq(s, 1, IF n < Len(s) THEN n ELSE Len(s))

Drop(s, n) == SubSeq(s, n + 1, Len(s))

\* strncasecmp(s, p, Len(p)) == 0
strncaseeq(s, p) == Len(s) >= Len(p) /\ strcaseeq(Take(s, Len(p)), p)

\* Length of the longest prefix of s with no character in X (strcspn).
SpanNotIn(s, X) ==
    IF \E k \in 1..Len(s) : s[k] \in X
    THEN (CHOOSE k \in 1..Len(s) :
              s[k] \in X /\ \A j \in 1..(k - 1) : s[j] \notin X) - 1
    ELSE Len(s)

\* Length of the longest prefix of s made of characters of X (strspn).
SpanIn(s, X) ==
    IF \E k \in 1..Len(s) : s[k] \notin X
    THEN (CHOOSE k \in 1..Len(s) :
              s[k] \notin X /\ \A j \in 1..(k - 1) : s[j] \in X) - 1
    ELSE Len(s)

RECURSIVE DecValue(_)
DecValue(ds) ==
    IF ds = <<>> THEN 0
    ELSE 10 * DecValue(SubSeq(ds, 1, Len(ds) - 1)) + DigitVal(ds[Len(ds)])

\* printf("%d") of a non-negative int
RECURSIVE FmtDec(_)
FmtDec(n) ==
    IF n < 10 THEN <<DigitChars[n + 1]>>
    ELSE FmtDec(n \div 10) \o <<DigitChars[(n % 10) + 1]>>

UShortMod == 65536

(***************************************************************************)
(* sscanf.  A format is a sequence of directives [d, arg]; a conversion    *)
(* takes the unread input and returns [ok, val, rest].                     *)
(***************************************************************************)
Cut(s, n) == [ok |-> n > 0, val |-> Take(s, n), rest |-> Drop(s, n)]

\* %[^X] : a non-empty run of characters outside X; no white-space skipping.
ScanNotSet(s, X) == Cut(s, SpanNotIn(s, X))

\* %s : skip white space, then a non-empty run of non-white-space.
ScanStr(s) == ScanNotSet(Drop(s, SpanIn(s, WhiteSpace)), WhiteSpace)

\* The numeric part of %hu / %u (strtoul) once white space is skipped:
\* optional sign, at least one digit.
ScanSigned(t, sgn) ==
    [ok   |-> Cut(Drop(t, sgn), SpanIn(Drop(t, sgn), DigitSet)).ok,
     neg  |-> sgn = 1 /\ t[1] = "-",
     val  |-> DecValue(Cut(Drop(t, sgn), SpanIn(Drop(t, sgn), DigitSet)).val),
     rest |-> Cut(Drop(t, sgn), SpanIn(Drop(t, sgn), DigitSet)).rest]

ScanDigitsAt(t) ==
    ScanSigned(t, IF t # <<>> /\ t[1] \in {"+", "-"} THEN 1 ELSE 0)

ScanDigits(s) == ScanDigitsAt(Drop(s, SpanIn(s, WhiteSpace)))

Wrap(d, m) ==
    [ok   |-> d.ok,
     val  |-> IF d.neg THEN (m - (d.val % m)) % m ELSE d.val % m,
     rest |-> d.rest]

\* %hu : the value is stored in an unsigned short, modulo 2^16.
ScanUShort(s) == Wrap(ScanDigits(s), UShortMod)

NoWrap(d) == [ok |-> d.ok, val |-> d.val, rest |-> d.rest]

\* %u : stored in an unsigned int; the digit strings of this model stay far
\* below 2^32, so only the sign could wrap and it is not among the inputs.
ScanUInt(s) == NoWrap(ScanDigits(s))

\* A literal (non-white-space) format character.
ScanLit(s, c) ==
    [ok |-> s # <<>> /\ s[1] = c, val |-> <<>>,
     rest |-> IF s = <<>> THEN s ELSE Drop(s, 1)]

\* White space in the format: skips any amount of it, never fails.
ScanBlank(s) ==
    [ok |-> TRUE, val |-> <<>>, rest |-> Drop(s, SpanIn(s, WhiteSpace))]

Lit(c) == [d |-> "lit", arg |-> {c}]

NotSet(X) == [d |-> "nset", arg |-> X]

Conv(k) == [d |-> k, arg |-> {}]

Convert(s, f) ==
    CASE f.d = "lit"   -> ScanLit(s, CHOOSE c \in f.arg : TRUE)
      [] f.d = "blank" -> ScanBlank(s)
      [] f.d = "nset"  -> ScanNotSet(s, f.arg)
      [] f.d = "s"     -> ScanStr(s)
      [] f.d = "hu"    -> ScanUShort(s)
      [] f.d = "u"     -> ScanUInt(s)

\* sscanf(s, fmt, ...): the values stored, in order; their number is the
\* value sscanf returns (an input failure before the first counts as 0).
RECURSIVE sscanf(_, _)
sscanf_rest(r, f, fmt) ==
    IF ~r.ok THEN <<>>
    ELSE (IF f.d \in {"lit", "blank"} THEN <<>> ELSE <<r.val>>)
         \o sscanf(r.rest, fmt)

sscanf(s, fmt) ==
    IF fmt = <<>> THEN <<>>
    ELSE sscanf_rest(Convert(s, Head(fmt)), Head(fmt), Tail(fmt))

(***************************************************************************)
(* URL extraction (struct request_s)                                       *)
(***************************************************************************)
\* A NULL char pointer (what "%s" prints for it).
NullStr == <<"(null)">>

sHttpScheme == <<"h","t","t","p",":","/","/">>

sSlash == <<"/">>

FmtHttpScheme == [i \in 1..7 |-> Lit(sHttpScheme[i])]

\* "http://%[^:/]:%hu%s"
FmtHostPortPath ==
    FmtHttpScheme \o <<NotSet({":", "/"}), Lit(":"), Conv("hu"), Conv("s")>>

\* "http://%[^/]%s"
FmtHostPath == FmtHttpScheme \o <<NotSet({"/"}), Conv("s")>>

\* "http://%[^:/]:%hu"
FmtHostPort == FmtHttpScheme \o <<NotSet({":", "/"}), Lit(":"), Conv("hu")>>

\* "http://%[^/]"
FmtHost == FmtHttpScheme \o <<NotSet({"/"})>>

Extracted(host, port, path) ==
    [ret |-> 0, host |-> host, port |-> port, path |-> path]

ExtractFailed == [ret |-> -1, host |-> NullStr, port |-> 0, path |-> NullStr]

\* The if / else-if chain of extract_http_url over the four sscanf results.
extract_http_chain(a, b, c, d) ==
    IF Len(a) = 3 THEN Extracted(a[1], a[2], a[3])
    ELSE IF Len(b) = 2 THEN Extracted(b[1], 80, b[2])
    ELSE IF Len(c) = 2 THEN Extracted(c[1], c[2], sSlash)
    ELSE IF Len(d) = 1 THEN Extracted(d[1], 80, sSlash)
    ELSE ExtractFailed

extract_http_url(url) ==
    extract_http_chain(sscanf(url, FmtHostPortPath), sscanf(url, FmtHostPath),
                       sscanf(url, FmtHostPort), sscanf(url, FmtHost))

\* "%[^:]:%hu"
FmtSslHostPort == <<NotSet({":"}), Lit(":"), Conv("hu")>>

\* "%s"
FmtSslHost == <<Conv("s")>>

\* request->path is left NULL (the struct comes from safecalloc).
extract_ssl_chain(a, b) ==
    IF Len(a) = 2 THEN Extracted(a[1], a[2], NullStr)
    ELSE IF Len(b) = 1 THEN Extracted(b[1], 443, NullStr)
    ELSE ExtractFailed

extract_ssl_url(url) ==
    extract_ssl_chain(sscanf(url, FmtSslHostPort), sscanf(url, FmtSslHost))

(***************************************************************************)
(* process_request                                                         *)
(***************************************************************************)
sCONNECT == <<"C","O","N","N","E","C","T">>

sHttp4 == <<"h","t","t","p">>

sHTTP4 == <<"H","T","T","P">>

\* "%[^ ] %[^ ] %[^ ]"
FmtRequestLine ==
    <<NotSet({" "}), Conv("blank"), NotSet({" "}), Conv("blank"),
      NotSet({" "})>>

\* "HTTP/%u.%u"
FmtProtocol ==
    <<Lit("H"), Lit("T"), Lit("T"), Lit("P"), Lit("/"), Conv("u"), Lit("."),
      Conv("u")>>

\* sscanf(protocol, "HTTP/%u.%u", &major, &minor) on top of the version the
\* connection already holds; a conversion that is not reached stores nothing.
StoreProtocol(v, old) ==
    [major |-> IF Len(v) >= 1 THEN v[1] ELSE old.major,
     minor |-> IF Len(v) >= 2 THEN v[2] ELSE old.minor]

sscanf_protocol(protocol, old) == StoreProtocol(sscanf(protocol, FmtProtocol), old)

NoRequest == [method |-> NullStr, protocol |-> NullStr, host |-> NullStr,
              port |-> 0, path |-> NullStr]

\* filter_url(host): the domain deny-list (filter.c).  It holds the name
\* that is also config.stathost, so that both gates apply to one request.
FilteredHosts == {<<"f">>, <<"s">>}

filter_url(host) == host \in FilteredHosts

\* config.stathost when it is set.
StatHostName == <<"s">>

\* What process_request leaves behind when it returns NULL: err is the
\* code given to httperr (0: none), denied counts update_stats(STAT_DENIED),
\* stats tells that showstats was called.
RequestRefused(code, den, st, cm, proto) ==
    [ok |-> FALSE, err |-> code, denied |-> den, stats |-> st,
     connect_method |-> cm, protocol |-> proto, request |-> NoRequest]

\* process_request_gates with the stathost gate ahead of the filter gate.
process_request_gates_stathost_first(method, prot, ex, cm, cfg, proto) ==
    IF ex.ret < 0 THEN RequestRefused(400, FALSE, FALSE, FALSE, proto)
    ELSE IF cfg.stathost /\ StatHostName = ex.host
    THEN RequestRefused(0, FALSE, TRUE, cm, proto)
    ELSE IF cfg.filter /\ filter_url(ex.host)
    THEN RequestRefused(404, TRUE, FALSE, cm, proto)
    ELSE [ok |-> TRUE, err |-> 0, denied |-> FALSE, stats |-> FALSE,
          connect_method |-> cm,
          protocol |-> IF strncaseeq(prot, sHttp4)
                       THEN sscanf_protocol(sHTTP4 \o Drop(prot, 4), proto)
                       ELSE proto,
          request |-> [method |-> method, protocol |-> prot,
                       host |-> ex.host, port |-> ex.port, path |-> ex.path]]

\* The filter and stathost gates and the protocol version, once the URL is
\* extracted (ex); cm is connect_method.
process_request_gates(method, prot, ex, cm, cfg, proto) ==
    IF ex.ret < 0 THEN RequestRefused(400, FALSE, FALSE, FALSE, proto)
    ELSE IF cfg.filter /\ filter_url(ex.host)
    THEN RequestRefused(404, TRUE, FALSE, cm, proto)
    ELSE IF cfg.stathost /\ StatHostName = ex.host
    THEN RequestRefused(0, FALSE, TRUE, cm, proto)
    ELSE [ok |-> TRUE, err |-> 0, denied |-> FALSE, stats |-> FALSE,
          connect_method |-> cm,
          protocol |-> IF strncaseeq(prot, sHttp4)
                       THEN sscanf_protocol(sHTTP4 \o Drop(prot, 4), proto)
                       ELSE proto,
          request |-> [method |-> method, protocol |-> prot,
                       host |-> ex.host, port |-> ex.port, path |-> ex.path]]

\* process_request_url without the test of the method.
process_request_url_any_method(method, url, prot, cfg, proto) ==
    IF strncaseeq(url, sHttpScheme)
    THEN process_request_gates(method, prot,
                               extract_http_url(sHttp4 \o Drop(url, 4)),
                               FALSE, cfg, proto)
    ELSE process_request_gates(method, prot, extract_ssl_url(url), TRUE, cfg,
                               proto)

\* The classification of the URL: absolute http (its first four characters
\* are overwritten with "http"), CONNECT authority, or neither.
process_request_url(method, url, prot, cfg, proto) ==
    IF strncaseeq(url, sHttpScheme)
    THEN process_request_gates(method, prot,
                               extract_http_url(sHttp4 \o Drop(url, 4)),
                               FALSE, cfg, proto)
    ELSE IF method = sCONNECT
    THEN process_request_gates(method, prot, extract_ssl_url(url), TRUE, cfg,
                               proto)
    ELSE RequestRefused(400, FALSE, FALSE, FALSE, proto)

process_request_tokens(tok, cfg, proto, uninit) ==
    IF Len(tok) < 2 THEN RequestRefused(400, FALSE, FALSE, FALSE, proto)
    ELSE process_request_url(tok[1], tok[2],
                             IF Len(tok) >= 3 THEN tok[3] ELSE uninit,
                             cfg, proto)

\* process_request(connptr).  line is connptr->request_line, cfg the
\* configuration, proto the version the connection holds, and uninit the
\* bytes found in the protocol buffer when sscanf stores only two tokens
\* (the buffer comes from safemalloc and is read all the same).
process_request(line, cfg, proto, uninit) ==
    process_request_tokens(sscanf(line, FmtRequestLine), cfg, proto, uninit)

(***************************************************************************)
(* Lines, the header map and the client-header pipeline                    *)
(***************************************************************************)
CRLF == <<"\r", "\n">>

\* CHECK_CRLF(header, len)
CHECK_CRLF(header) == header = <<"\n">> \/ header = CRLF

\* chomp(buffer, len): the number of trailing CR / LF characters removed.
chomp_count(line) ==
    IF \E k \in 1..Len(line) : line[k] \notin {"\r", "\n"}
    THEN Len(line) - (CHOOSE k \in 1..Len(line) :
                          /\ line[k] \notin {"\r", "\n"}
                          /\ \A j \in (k + 1)..Len(line) : line[j] \in {"\r", "\n"})
    ELSE Len(line)

chomp(line) == Take(line, Len(line) - chomp_count(line))

\* read_request_line(connptr) on the lines the client still sends: blank
\* lines are skipped, a closed socket fails.  [ret, line, rest]
RECURSIVE read_request_line(_)
read_request_line(in) ==
    IF in = <<>> THEN [ret |-> -1, line |-> NullStr, rest |-> in]
    ELSE IF chomp_count(Head(in)) = Len(Head(in))
    THEN read_request_line(Tail(in))
    ELSE [ret |-> 0, line |-> chomp(Head(in)), rest |-> Tail(in)]

\* The header map (hashmap.c): entries [key, data] in insertion order, keyed
\* by the lowercased name; the stored length is that of the data plus its
\* terminator.
hashmap_insert(map, key, data) ==
    Append(map, [key |-> LowerStr(key), data |-> data])

hashmap_has(map, key) == \E i \in 1..Len(map) : strcaseeq(map[i].key, key)

\* hashmap_search: the first match's data (its length is > 0 when found).
hashmap_search(map, key) ==
    map[CHOOSE i \in 1..Len(map) :
            /\ strcaseeq(map[i].key, key)
            /\ \A j \in 1..(i - 1) : ~strcaseeq(map[j].key, key)].data

hashmap_remove(map, key) ==
    LET keep(e) == ~strcaseeq(e.key, key) IN SelectSeq(map, keep)

hashmap_keys(map) == [i \in 1..Len(map) |-> map[i].key]

\* add_header_to_connection(hashofheaders, header, len): ret < 0 when the
\* line holds no colon.
split_header(map, h, k) ==
    IF k = Len(h) THEN [ret |-> -1, map |-> map]
    ELSE [ret |-> 0,
          map |-> hashmap_insert(map, Take(h, k),
                      Drop(Drop(h, k), SpanIn(Drop(h, k), {":", " ", "\t"})))]

header_name_end(map, h) == split_header(map, h, SpanNotIn(h, {":"}))

add_header_to_connection(map, header) == header_name_end(map, chomp(header))

\* get_all_headers(fd, hashofheaders): [ret, map, rest]
RECURSIVE get_all_headers(_, _)
header_added(a, rest) ==
    IF a.ret < 0 THEN [ret |-> -1, map |-> a.map, rest |-> rest]
    ELSE get_all_headers(rest, a.map)

get_all_headers(in, map) ==
    IF in = <<>> THEN [ret |-> -1, map |-> map, rest |-> in]
    ELSE IF CHECK_CRLF(Head(in)) THEN [ret |-> 0, map |-> map, rest |-> Tail(in)]
    ELSE header_added(add_header_to_connection(map, Head(in)), Tail(in))

sConnection == <<"c","o","n","n","e","c","t","i","o","n">>

\* strpbrk's separator class in remove_connection_headers
ConnectionSeparators ==
    {"(", ")", "<", ">", "@", ",", ";", ":", "\\", "\"", "/", "[", "]", "?",
     "=", "{", "}", " ", "\t"}

\* The tokens remove_connection_headers walks over: the C string at offset
\* 0 (empty when the value starts with a separator), then every later
\* non-empty run of non-separators.
RECURSIVE ConnectionTokensFrom(_)
ConnectionTokensFrom(d) ==
    LET t == Drop(d, SpanIn(d, ConnectionSeparators))
        n == SpanNotIn(t, ConnectionSeparators)
    IN  IF t = <<>> THEN <<>>
        ELSE <<Take(t, n)>> \o ConnectionTokensFrom(Drop(t, n))

ConnectionTokens(data) ==
    LET n == SpanNotIn(data, ConnectionSeparators)
    IN  <<Take(data, n)>> \o ConnectionTokensFrom(Drop(data, n))

RECURSIVE hashmap_remove_all(_, _)
hashmap_remove_all(map, keys) ==
    IF keys = <<>> THEN map
    ELSE hashmap_remove_all(hashmap_remove(map, Head(keys)), Tail(keys))

\* The headers left when every entry whose key is in keys is removed.
hashmap_remove_set(map, keys) ==
    SelectSeq(map, LAMBDA e : e.key \notin keys)

\* The bytes remove_connection_headers reads.  The value buffer holds the
\* value and its terminator, len bytes at offsets 0..len-1; strpbrk's loop
\* has put a NUL in place of every separator.
NUL == "NUL"

Delimited(data) ==
    [i \in 1..Len(data) |->
        IF data[i] \in ConnectionSeparators THEN NUL ELSE data[i]] \o <<NUL>>

\* What lies in memory after the value buffer: bytes that can be read, up
\* to where the mapped memory ends.
BytesPastValue == {<<>>, <<"x">>, <<NUL, "x">>, <<NUL, NUL>>}

\* strlen(ptr) inside the buffer: the terminator stops it.
strlen_at(buf, ptr) == SpanNotIn(Drop(buf, ptr), {NUL})

\* while (*ptr == '\0') ptr++: [ptr, reads, fault], reading the buffer and
\* then the bytes past it; a read where no memory is mapped faults.
RECURSIVE skip_nuls(_, _, _, _)
skip_nuls(mem, ptr, reads, mapped) ==
    IF ptr >= mapped THEN [ptr |-> ptr, reads |-> reads \cup {ptr}, fault |-> TRUE]
    ELSE IF mem[ptr + 1] = NUL
         THEN skip_nuls(mem, ptr + 1, reads \cup {ptr}, mapped)
         ELSE [ptr |-> ptr, reads |-> reads \cup {ptr}, fault |-> FALSE]

\* The walk from ptr: the offsets it reads and whether it faults.
RECURSIVE token_walk(_, _, _, _)
after_token(mem, len, reads, s) ==
    IF s.fault THEN [reads |-> reads \cup s.reads, fault |-> TRUE]
    ELSE token_walk(mem, len, s.ptr, reads \cup s.reads)

token_walk(mem, len, ptr, reads) ==
    IF ptr >= len THEN [reads |-> reads, fault |-> FALSE]
    ELSE after_token(mem, len,
                     reads \cup (ptr..(ptr + strlen_at(mem, ptr))),
                     skip_nuls(mem, ptr + strlen_at(mem, ptr) + 1, {}, Len(mem)))

\* The walk over a Connection value, with past lying after its buffer.
value_walk(data, past) ==
    token_walk(Delimited(data) \o past, Len(data) + 1, 0, {})

\* A token naming the Connection header itself makes hashmap_remove free
\* the very value the walk is reading: the tokens read after it are whatever
\* the freed memory spells.
NamesItself(data) ==
    \E i \in 1..Len(ConnectionTokens(data)) :
        strcaseeq(ConnectionTokens(data)[i], sConnection)

\* The tokens the walk reads from the value itself: all of them, or those
\* up to and including the first that names the Connection header.
RECURSIVE TokensBeforeFree(_)
TokensBeforeFree(toks) ==
    IF toks = <<>> THEN <<>>
    ELSE IF strcaseeq(Head(toks), sConnection) THEN <<Head(toks)>>
    ELSE <<Head(toks)>> \o TokensBeforeFree(Tail(toks))

\* remove_connection_headers(hashofheaders, data, len).  junk: the keys the
\* walk removes once it runs over freed memory, the later tokens of the
\* value among them or not (empty when it does not run over freed memory).
remove_connection_headers(map, data, junk) ==
    hashmap_remove_set(
        hashmap_remove_all(map, TokensBeforeFree(ConnectionTokens(data))),
        junk)

\* skipheaders without its first entry.
skipheaders_without_host ==
    << <<"c","o","n","n","e","c","t","i","o","n">>,
       <<"k","e","e","p","-","a","l","i","v","e">>,
       <<"p","r","o","x","y","-","a","u","t","h","e","n","t","i","c","a","t","e">>,
       <<"p","r","o","x","y","-","a","u","t","h","o","r","i","z","a","t","i","o","n">>,
       <<"t","e">>,
       <<"t","r","a","i","l","e","r","s">>,
       <<"t","r","a","n","s","f","e","r","-","e","n","c","o","d","i","n","g">>,
       <<"u","p","g","r","a","d","e">> >>

skipheaders ==
    << <<"h","o","s","t">>,
       <<"c","o","n","n","e","c","t","i","o","n">>,
       <<"k","e","e","p","-","a","l","i","v","e">>,
       <<"p","r","o","x","y","-","a","u","t","h","e","n","t","i","c","a","t","e">>,
       <<"p","r","o","x","y","-","a","u","t","h","o","r","i","z","a","t","i","o","n">>,
       <<"t","e">>,
       <<"t","r","a","i","l","e","r","s">>,
       <<"t","r","a","n","s","f","e","r","-","e","n","c","o","d","i","n","g">>,
       <<"u","p","g","r","a","d","e">> >>

sContentLength == <<"c","o","n","t","e","n","t","-","l","e","n","g","t","h">>

sVia == <<"v","i","a">>

\* gethostname(), PACKAGE and VERSION
HostName == <<"p","x">>

Package == <<"t","p">>

Version == <<"1">>

\* atol(data): optional white space and sign, then digits; 0 without digits.
Signed(d) == IF ~d.ok THEN 0 ELSE IF d.neg THEN 0 - d.val ELSE d.val

atol(data) == Signed(ScanDigits(data))

\* Capacity of a relay buffer and of the body pump's chunk (tinyproxy.h);
\* scaled down.
MAXBUFFSIZE == 2

Min(a, b) == IF a < b THEN a ELSE b

\* A socket accepts `room` more writes before it breaks (-1: it never
\* breaks).  The writes of ws that succeed, and the room left.
Unlimited == 0 - 1

Accepted(ws, room) == IF room = Unlimited THEN ws ELSE Take(ws, room)

RoomAfter(ws, room) ==
    IF room = Unlimited THEN room
    ELSE IF Len(ws) >= room THEN 0 ELSE room - Len(ws)

AllAccepted(ws, room) == room = Unlimited \/ Len(ws) <= room

\* pull_client_data(connptr, length).  body: the bytes the client sends
\* before closing; sent: response_message_sent; room: as above for the
\* server socket.  A read returns as much as is asked for and available.
\* [ret, body, writes, room]
RECURSIVE pull_client_data(_, _, _, _)
pull_client_data(body, length, sent, room) ==
    LET len == Min(Min(MAXBUFFSIZE, length), Len(body))
    IN  IF len <= 0
        THEN [ret |-> -1, body |-> body, writes |-> <<>>, room |-> room]
        ELSE IF ~sent /\ room = 0
        THEN [ret |-> -1, body |-> Drop(body, len), writes |-> <<>>,
              room |-> room]
        ELSE LET w  == IF sent THEN <<>> ELSE <<Take(body, len)>>
                 r1 == RoomAfter(w, room)
             IN  IF length - len > 0
                 THEN [pull_client_data(Drop(body, len), length - len, sent,
                                        r1)
                           EXCEPT !.writes = w \o @]
                 ELSE [ret |-> 0, body |-> Drop(body, len), writes |-> w,
                       room |-> r1]

\* anonymous_search(name): non-zero when the name is in the allow-list
\* (anonymous.c).
AnonymousAllowed == {<<"a","c","c","e","p","t">>}

anonymous_search(key) == IF LowerStr(key) \in AnonymousAllowed THEN 1 ELSE 0

\* getpeer_ip(client_fd)
PeerIp == <<"1",".","2">>

\* "Via: ..." as process_client_headers formats it
ViaLine(map, proto) ==
    LET own == FmtDec(proto.major % UShortMod) \o <<".">>
               \o FmtDec(proto.minor % UShortMod) \o <<" ">> \o HostName
               \o <<" ", "(">> \o Package \o <<"/">> \o Version \o <<")">>
    IN  <<"V","i","a",":"," ">>
        \o (IF hashmap_has(map, sVia)
            THEN hashmap_search(map, sVia) \o <<",", " ">> ELSE <<>>)
        \o own \o CRLF

\* The "%s: %s\r\n" lines of the remaining headers
RemainingHeaderLines(map, anon) ==
    LET keys == hashmap_keys(map)
        line(k) == k \o <<":", " ">> \o hashmap_search(map, k) \o CRLF
        emit(k) == ~anon \/ anonymous_search(k) = 0
        RECURSIVE go(_)
        go(i) == IF i > Len(keys) THEN <<>>
                 ELSE (IF emit(keys[i]) THEN <<line(keys[i])>> ELSE <<>>)
                      \o go(i + 1)
    IN  go(1)

\* The Connection header: the headers its tokens name are removed, then
\* the header itself.
strip_connection(map, junk) ==
    IF hashmap_has(map, sConnection)
    THEN hashmap_remove(
             remove_connection_headers(map, hashmap_search(map, sConnection),
                                       junk),
             sConnection)
    ELSE map

\* content_length: atol of the Content-Length header, -1 without one.
content_length_of(map) ==
    IF hashmap_has(map, sContentLength)
    THEN atol(hashmap_search(map, sContentLength)) ELSE 0 - 1

\* add_xtinyproxy_header(connptr) under MY_DOMAIN
XTinyproxyLine ==
    <<"X","-","T","i","n","y","p","r","o","x","y",":"," ">> \o PeerIp \o CRLF

\* What process_client_headers writes to the server before the body: Via,
\* the headers left once Via and skipheaders are removed, X-Tinyproxy and
\* the blank line.
client_header_writes(map, cn, cfg) ==
    <<ViaLine(map, cn.protocol)>>
    \o RemainingHeaderLines(
           hashmap_remove_all(hashmap_remove(map, sVia), skipheaders),
           cfg.anonymous)
    \o (IF cfg.my_domain THEN <<XTinyproxyLine>> ELSE <<>>)
    \o <<CRLF>>

\* The tail of process_client_headers: pd is pull_client_data's result.
pulled(pd, ws, rest, room) ==
    [ret |-> pd.ret, rest |-> rest, body |-> pd.body,
     writes |-> Accepted(ws, room) \o pd.writes, room |-> pd.room]

forward_client_headers(ws, length, rest, body, cn, room) ==
    IF length >= 0
    THEN pulled(pull_client_data(body, length, cn.response_message_sent,
                                 RoomAfter(ws, room)),
                ws, rest, room)
    ELSE [ret |-> 0, rest |-> rest, body |-> body,
          writes |-> Accepted(ws, room), room |-> RoomAfter(ws, room)]

rewrite_client_headers(map, rest, body, cn, cfg, room) ==
    forward_client_headers(client_header_writes(map, cn, cfg),
                           content_length_of(map), rest, body, cn, room)

\* The test under which process_client_headers returns before writing
\* anything to the server.
headers_not_sent_connect_only(cn, cfg) == cn.connect_method /\ ~cfg.upstream

headers_not_sent(cn, cfg) ==
    cn.server_fd = -1 \/ (cn.connect_method /\ ~cfg.upstream)

client_headers_read(g, body, cn, cfg, room, junk) ==
    IF g.ret < 0
    THEN [ret |-> -1, rest |-> g.rest, body |-> body, writes |-> <<>>,
          room |-> room]
    ELSE IF headers_not_sent(cn, cfg)
    THEN [ret |-> 0, rest |-> g.rest, body |-> body, writes |-> <<>>,
          room |-> room]
    ELSE rewrite_client_headers(strip_connection(g.map, junk), g.rest, body,
                                cn, cfg, room)

\* process_client_headers(connptr).  in, body: what the client still sends;
\* cn: the connection; cfg: the configuration; room: the writes the server
\* socket still accepts; junk: see remove_connection_headers.
\* [ret, rest, body, writes, room]
process_client_headers(in, body, cn, cfg, room, junk) ==
    client_headers_read(get_all_headers(in, <<>>), body, cn, cfg, room, junk)

\* What the walk of remove_connection_headers can do when
\* process_client_headers reaches it.  After the last token the walk reads
\* data[len], one byte past the value: the read finds some byte and the walk
\* ends, or it faults.  [fault, junk]
KeySet(map) == {map[i].key : i \in 1..Len(map)}

walks_of(g, cn, cfg) ==
    IF g.ret < 0 \/ headers_not_sent(cn, cfg)
       \/ ~hashmap_has(g.map, sConnection)
    THEN {[fault |-> FALSE, junk |-> {}]}
    ELSE {[fault |-> value_walk(hashmap_search(g.map, sConnection), past).fault,
           junk |-> {}] : past \in BytesPastValue}
         \cup {[fault |-> FALSE, junk |-> j] :
                   j \in IF NamesItself(hashmap_search(g.map, sConnection))
                         THEN SUBSET KeySet(g.map) ELSE {{}}}

connection_walks(in, cn, cfg) == walks_of(get_all_headers(in, <<>>), cn, cfg)

(***************************************************************************)
(* Request emission and the response phase                                 *)
(***************************************************************************)
sHTTP10 == <<" ","H","T","T","P","/","1",".","0","\r","\n">>

sHostColon == <<"H","o","s","t",":"," ">>

sConnectionClose == <<"C","o","n","n","e","c","t","i","o","n",":"," ","c","l","o","s","e","\r","\n">>

\* snprintf(buf, size, ...): at most size - 1 characters are stored.
snprintf(size, str) == Take(str, size - 1)

\* establish_http_connection(connptr, request): three writes, given up at
\* the first that fails.  [ret, writes, room]
establish_http_connection(request, room) ==
    LET ws == << request.method \o <<" ">> \o request.path \o sHTTP10,
                 sHostColon \o request.host \o CRLF,
                 sConnectionClose >>
    IN  [ret    |-> IF AllAccepted(ws, room) THEN 0 ELSE 0 - 1,
         writes |-> Accepted(ws, room),
         room   |-> RoomAfter(ws, room)]

\* upstream_path with one byte less for the absolute form.
upstream_path_short(request, connect_method) ==
    IF connect_method
    THEN snprintf(Len(request.host) + 6,
                  request.host \o <<":">> \o FmtDec(request.port))
    ELSE snprintf(Len(request.host) + Len(request.path) + 13,
                  sHttpScheme \o request.host \o <<":">>
                  \o FmtDec(request.port) \o request.path)

\* The path connect_to_upstream builds once the upstream socket is open.
upstream_path(request, connect_method) ==
    IF connect_method
    THEN snprintf(Len(request.host) + 6,
                  request.host \o <<":">> \o FmtDec(request.port))
    ELSE snprintf(Len(request.host) + Len(request.path) + 14,
                  sHttpScheme \o request.host \o <<":">>
                  \o FmtDec(request.port) \o request.path)

\* SSL_CONNECTION_RESPONSE, PROXY_AGENT and the blank line
send_ssl_response_lines ==
    << <<"H","T","T","P","/","1",".","0"," ","2","0","0"," ","C","o","n","n","e","c","t","i","o","n"," ","e","s","t","a","b","l","i","s","h","e","d","\r","\n">>,
       <<"P","r","o","x","y","-","a","g","e","n","t",":"," ">> \o Package \o <<"/">> \o Version \o CRLF,
       CRLF >>

\* send_ssl_response(connptr) on a client socket with `room`.
send_ssl_response(room) ==
    [ret    |-> IF AllAccepted(send_ssl_response_lines, room) THEN 0 ELSE 0 - 1,
     writes |-> Accepted(send_ssl_response_lines, room),
     rest   |-> <<>>,
     room   |-> RoomAfter(send_ssl_response_lines, room)]

\* process_server_headers(connptr).  resp: the lines the server sends
\* before it closes; room: for the client socket.  [ret, writes, rest, room]
RECURSIVE process_server_headers(_, _)
process_server_headers(resp, room) ==
    IF resp = <<>>
    THEN [ret |-> -1, writes |-> <<>>, rest |-> resp, room |-> room]
    ELSE IF room = 0
    THEN [ret |-> -1, writes |-> <<>>, rest |-> Tail(resp), room |-> room]
    ELSE IF CHECK_CRLF(Head(resp))
    THEN [ret |-> 0, writes |-> <<Head(resp)>>, rest |-> Tail(resp),
          room |-> RoomAfter(<<Head(resp)>>, room)]
    ELSE [process_server_headers(Tail(resp), RoomAfter(<<Head(resp)>>, room))
              EXCEPT !.writes = <<Head(resp)>> \o @]

(***************************************************************************)
(* The connection: state                                                   *)
(***************************************************************************)
VARIABLES
    config,        \* tunnel, upstream, filter, stathost, anonymous, my_domain
    client_sent,   \* the lines the client sends over the whole connection
    pc,            \* position of handle_connection
    trail,         \* the positions handle_connection has executed, in order
    client_in,     \* lines the client still sends
    client_body,   \* bytes the client sends after them, before it closes
    client_room,   \* writes the client socket still accepts (-1: no limit)
    server_resp,   \* lines the server sends once connected
    server_body,   \* bytes the server sends after them, before it closes
    server_room,   \* writes the server socket still accepts (-1: no limit)
    conn,          \* struct conn_s
    request,       \* struct request_s (NoRequest: NULL)
    client_out,    \* what has been written to the client socket
    server_out,    \* what has been written to the server socket
    opens,         \* the opensock calls made
    stats,         \* update_stats counters
    destroyed,     \* number of destroy_conn calls
    cbuffer,       \* connptr->cbuffer (client to server)
    sbuffer,       \* connptr->sbuffer (server to client)
    rset,          \* descriptors select reported readable
    wset,          \* descriptors select reported writable
    idle_for,      \* time(NULL) - last_access, in seconds
    relay_log      \* relay bytes: pending per peer at entry, written per socket

vars == <<config, client_sent, pc, trail, client_in, client_body, client_room, server_resp,
          server_body, server_room, conn, request, client_out, server_out,
          opens, stats, destroyed, cbuffer, sbuffer, rset, wset, idle_for,
          relay_log>>

io_vars == <<client_in, client_body, client_room, server_resp, server_body,
             server_room>>

relay_vars == <<cbuffer, sbuffer, rset, wset, idle_for, relay_log>>

\* UPSTREAM_CONFIGURED(), TUNNEL_CONFIGURED()
UPSTREAM_CONFIGURED == config.upstream

TUNNEL_CONFIGURED == config.tunnel

\* The descriptor opensock returns on success.
ServerFd == 5

\* initialize_conn(fd) (conns.c)
initialize_conn ==
    [server_fd |-> -1, connect_method |-> FALSE,
     response_message_sent |-> FALSE,
     protocol |-> [major |-> 0, minor |-> 0], request_line |-> NullStr]

\* httperr(connptr, code, msg) (utils.c): renders the error body to the
\* client and sets response_message_sent.
httperr(out, code) == Append(out, [kind |-> "httperr", code |-> code])

\* showstats(connptr) (stats.c): renders the status page to the client.
showstats(out) == Append(out, [kind |-> "stats"])

\* Raw bytes written to the client socket.
ClientWrites(out, ws) ==
    out \o [i \in 1..Len(ws) |-> [kind |-> "data", data |-> ws[i]]]

RECURSIVE Flatten(_)
Flatten(ss) == IF ss = <<>> THEN <<>> ELSE Head(ss) \o Flatten(Tail(ss))

(***************************************************************************)
(* handle_connection, one action per blocking stage                        *)
(***************************************************************************)
\* Bytes a safemalloc'ed protocol buffer may hold when it is never written.
UninitProtocols == { <<>>, <<"h","t","t","p","/","9",".","9">> }

\* config.upstream_name / config.tunnel_name and their ports
UpstreamName == <<"u","p">>

TunnelName == <<"t","n">>

ProxyPort == 3128

Destroy == destroyed' = destroyed + 1

BadConn(st) == [st EXCEPT !.badconn = @ + 1]

\* check_acl(fd) and the branch on TUNNEL_CONFIGURED()
hc_check_acl ==
    /\ pc = "check_acl"
    /\ trail' = Append(trail, pc)
    /\ \E allowed \in BOOLEAN :
          IF ~allowed
          THEN /\ stats' = [stats EXCEPT !.denied = @ + 1]
               /\ client_out' = httperr(client_out, 403)
               /\ conn' = [conn EXCEPT !.response_message_sent = TRUE]
               /\ pc' = "send_error"
          ELSE /\ pc' = IF TUNNEL_CONFIGURED THEN "tunnel" ELSE "internal_proxy"
               /\ UNCHANGED <<stats, client_out, conn>>
    /\ UNCHANGED <<config, client_sent, request, server_out, opens, destroyed>>
    /\ UNCHANGED io_vars
    /\ UNCHANGED relay_vars

\* connect_to_tunnel(connptr) and the two gotos that follow it.  When the
\* recv that peeks at the request fails, len is (size_t) -1 and the scan for
\* '\n' leaves the buffer: it ends at some byte and the function goes on, or
\* it faults.
connect_to_tunnel ==
    /\ pc = "tunnel"
    /\ trail' = Append(trail, pc)
    /\ \/ \E ok \in BOOLEAN :
             /\ opens' = Append(opens, [to |-> "tunnel", host |-> TunnelName,
                                        port |-> ProxyPort, ok |-> ok])
             /\ IF ok
                THEN /\ conn' = [conn EXCEPT !.server_fd = ServerFd]
                     /\ pc' = "relay_proxy"
                     /\ UNCHANGED client_out
                ELSE /\ client_out' = httperr(client_out, 404)
                     /\ conn' = [conn EXCEPT !.response_message_sent = TRUE]
                     /\ pc' = "internal_proxy"
       \/ /\ pc' = "fault"
          /\ UNCHANGED <<opens, conn, client_out>>
    /\ UNCHANGED <<config, client_sent, request, server_out, stats, destroyed>>
    /\ UNCHANGED io_vars
    /\ UNCHANGED relay_vars

\* internal_proxy: read_request_line(connptr)
hc_read_request_line ==
    /\ pc = "internal_proxy"
    /\ trail' = Append(trail, pc)
    /\ \E r \in {read_request_line(client_in)} :
           /\ client_in' = r.rest
           /\ IF r.ret < 0
              THEN /\ stats' = BadConn(stats)
                   /\ Destroy
                   /\ pc' = "closed"
                   /\ UNCHANGED conn
              ELSE /\ conn' = [conn EXCEPT !.request_line = r.line]
                   /\ pc' = "process_request"
                   /\ UNCHANGED <<stats, destroyed>>
    /\ UNCHANGED <<config, client_sent, request, client_out, server_out, opens>>
    /\ UNCHANGED <<client_body, client_room, server_resp, server_body,
                   server_room>>
    /\ UNCHANGED relay_vars

\* request = process_request(connptr) and the test of its result
hc_process_request ==
    /\ pc = "process_request"
    /\ trail' = Append(trail, pc)
    /\ \E r \in {process_request(conn.request_line, config, conn.protocol, u) :
                    u \in UninitProtocols} :
          LET sent == conn.response_message_sent \/ r.err # 0
          IN  /\ client_out' = IF r.err # 0 THEN httperr(client_out, r.err)
                               ELSE IF r.stats THEN showstats(client_out)
                               ELSE client_out
              /\ conn' = [conn EXCEPT
                              !.connect_method = @ \/ r.connect_method,
                              !.protocol = r.protocol,
                              !.response_message_sent = sent]
              /\ request' = r.request
              /\ IF r.ok
                 THEN /\ pc' = "connect"
                      /\ stats' = stats
                      /\ UNCHANGED destroyed
                 ELSE IF ~sent
                 THEN /\ pc' = "closed"
                      /\ stats' = BadConn(stats)
                      /\ Destroy
                 ELSE /\ pc' = "send_error"
                      /\ stats' = [stats EXCEPT
                                      !.denied = @ + IF r.denied THEN 1 ELSE 0]
                      /\ UNCHANGED destroyed
    /\ UNCHANGED <<config, client_sent, server_out, opens>>
    /\ UNCHANGED io_vars
    /\ UNCHANGED relay_vars

\* connect_to_upstream(connptr, request) with opensock's outcome ok:
\* [conn, request, err, writes, room]
established(cn, req, e) ==
    [conn |-> [cn EXCEPT !.server_fd = ServerFd], request |-> req,
     err |-> 0, writes |-> e.writes, room |-> e.room]

establish(cn, req, room) ==
    established(cn, req, establish_http_connection(req, room))

connect_to_upstream(cn, req, ok, room) ==
    IF ~ok
    THEN [conn |-> cn, request |-> req, err |-> 404, writes |-> <<>>,
          room |-> room]
    ELSE establish(cn, [req EXCEPT !.path = upstream_path(req, cn.connect_method)],
                   room)

\* The direct branch of handle_connection: opensock(request->host,
\* request->port), then establish_http_connection unless connect_method.
connect_to_origin(cn, req, ok, room) ==
    IF ~ok
    THEN [conn |-> cn, request |-> req, err |-> 500, writes |-> <<>>,
          room |-> room]
    ELSE IF cn.connect_method
    THEN [conn |-> [cn EXCEPT !.server_fd = ServerFd], request |-> req,
          err |-> 0, writes |-> <<>>, room |-> room]
    ELSE establish(cn, req, room)

hc_connect ==
    /\ pc = "connect"
    /\ trail' = Append(trail, pc)
    /\ \E ok \in BOOLEAN :
          \E c \in {IF UPSTREAM_CONFIGURED
                    THEN connect_to_upstream(conn, request, ok, server_room)
                    ELSE connect_to_origin(conn, request, ok, server_room)} :
              /\ opens' = Append(opens,
                     IF UPSTREAM_CONFIGURED
                     THEN [to |-> "upstream", host |-> UpstreamName,
                           port |-> ProxyPort, ok |-> ok]
                     ELSE [to |-> "origin", host |-> request.host,
                           port |-> request.port, ok |-> ok])
              /\ conn' = [c.conn EXCEPT
                             !.response_message_sent = @ \/ c.err # 0]
              /\ client_out' = IF c.err # 0 THEN httperr(client_out, c.err)
                               ELSE client_out
              /\ request' = c.request
              /\ server_out' = server_out \o c.writes
              /\ server_room' = c.room
    /\ pc' = "send_error"
    /\ UNCHANGED <<config, client_sent, stats, destroyed>>
    /\ UNCHANGED <<client_in, client_body, client_room, server_resp,
                   server_body>>
    /\ UNCHANGED relay_vars

\* after_client_headers without the test of response_message_sent.
after_client_headers_ungated(ret, sent) ==
    IF ret < 0 THEN "closed" ELSE "response"

\* Where handle_connection goes once process_client_headers has returned
\* ret and response_message_sent is sent.
after_client_headers(ret, sent) ==
    IF ret < 0 \/ sent THEN "closed" ELSE "response"

\* send_error: free_request_struct, process_client_headers and the two
\* tests of response_message_sent
hc_send_error ==
    /\ pc = "send_error"
    /\ trail' = Append(trail, pc)
    /\ \E walk \in connection_walks(client_in, conn, config) :
          \E r \in {process_client_headers(client_in, client_body, conn,
                                           config, server_room, walk.junk)} :
             /\ client_in' = r.rest
             /\ IF walk.fault
                THEN /\ pc' = "fault"
                     /\ UNCHANGED <<client_body, server_out, server_room,
                                    stats, destroyed>>
                ELSE /\ client_body' = r.body
                     /\ server_out' = server_out \o r.writes
                     /\ server_room' = r.room
                     /\ stats' = IF r.ret < 0 THEN BadConn(stats) ELSE stats
                     /\ pc' = after_client_headers(r.ret,
                                                   conn.response_message_sent)
                     /\ IF pc' = "closed" THEN Destroy
                        ELSE UNCHANGED destroyed
    /\ request' = NoRequest
    /\ UNCHANGED <<config, client_sent, conn, client_out, opens>>
    /\ UNCHANGED <<client_room, server_resp, server_body>>
    /\ UNCHANGED relay_vars

\* The test that chooses between process_server_headers and
\* send_ssl_response.
copies_server_headers_unless_connect(cn) == ~cn.connect_method

copies_server_headers(cn) == ~cn.connect_method \/ UPSTREAM_CONFIGURED

\* process_server_headers or send_ssl_response, then relay_proxy
hc_response ==
    /\ pc = "response"
    /\ trail' = Append(trail, pc)
    /\ \E r \in {IF copies_server_headers(conn)
                  THEN process_server_headers(server_resp, client_room)
                  ELSE [send_ssl_response(client_room) EXCEPT
                            !.rest = server_resp]} :
           /\ server_resp' = r.rest
           /\ client_out' = ClientWrites(client_out, r.writes)
           /\ client_room' = r.room
           /\ IF r.ret < 0
              THEN /\ stats' = BadConn(stats)
                   /\ Destroy
                   /\ pc' = "closed"
              ELSE /\ pc' = "relay_proxy"
                   /\ UNCHANGED <<stats, destroyed>>
    /\ UNCHANGED <<config, client_sent, conn, request, server_out, opens>>
    /\ UNCHANGED <<client_in, client_body, server_body, server_room>>
    /\ UNCHANGED relay_vars

(***************************************************************************)
(* relay_connection, one action per select / read / write                  *)
(***************************************************************************)
\* config.idletimeout, in seconds
IdleTimeout == 1

BUFFER_SIZE(buf) == Len(buf)

\* read_buffer(fd, buffptr) (buffer.c) taking n bytes of what the peer has
\* pending; n < 0 stands for end of stream or an error.  [ret, src, buf]
read_buffer(src, buf, n) ==
    IF n < 0 THEN [ret |-> -1, src |-> src, buf |-> buf]
    ELSE [ret |-> n, src |-> Drop(src, n), buf |-> buf \o Take(src, n)]

\* write_buffer(fd, buffptr) (buffer.c) writing the first n bytes; n < 0
\* stands for an error.  [ret, buf, out]
write_buffer(buf, n) ==
    IF n < 0 THEN [ret |-> -1, buf |-> buf, out |-> <<>>]
    ELSE [ret |-> n, buf |-> Drop(buf, n), out |-> Take(buf, n)]

RoomIn(buf) == IF Len(buf) < MAXBUFFSIZE THEN MAXBUFFSIZE - Len(buf) ELSE 0

ToServer(log, bytes) == [log EXCEPT !.to_server = @ \o bytes]

\* The loop step at which a read or write returned less than 0, if any.
Broke(log, ret, step) ==
    IF ret < 0 THEN [log EXCEPT !.broke_at = step] ELSE log

\* after_step going on to the next step whatever was returned.
after_step_ignoring_errors(ret, next) == next

\* Where the loop goes after a read_buffer or write_buffer call: out of the
\* loop when it returned less than 0, to the next step otherwise.
after_step(ret, next) == IF ret < 0 THEN "drain_sbuffer" ELSE next

ToClient(log, bytes) == [log EXCEPT !.to_client = @ \o bytes]

\* relay_proxy: entry of relay_connection
relay_enter ==
    /\ pc = "relay_proxy"
    /\ trail' = Append(trail, pc)
    /\ pc' = "select"
    /\ idle_for' = 0
    /\ client_in' = <<>>
    /\ client_body' = Flatten(client_in) \o client_body
    /\ server_resp' = <<>>
    /\ server_body' = Flatten(server_resp) \o server_body
    /\ relay_log' = [from_client |-> client_body', from_server |-> server_body',
                     to_client |-> <<>>, to_server |-> <<>>,
                     broke_at |-> "none"]
    /\ UNCHANGED <<config, client_sent, conn, request, client_out, server_out, opens, stats,
                   destroyed, cbuffer, sbuffer, rset, wset, client_room,
                   server_room>>

\* The test made when select reports no descriptor: tdiff is
\* difftime(time(NULL), last_access).
idle_expired_at_limit(tdiff) == tdiff >= IdleTimeout

idle_expired(tdiff) == tdiff > IdleTimeout

\* The test under which a descriptor is put in rset: the buffer its bytes
\* go to holds less than MAXBUFFSIZE.
read_wanted_when_full(buf) == BUFFER_SIZE(buf) <= MAXBUFFSIZE

read_wanted(buf) == BUFFER_SIZE(buf) < MAXBUFFSIZE

\* The head of the loop: FD_SET by buffer sizes, select, and its three
\* outcomes.  select gives up after idletimeout - idle_for seconds, so the
\* clock then reads at least idletimeout seconds past last_access.
relay_select ==
    /\ pc = "select"
    /\ LET want_r == (IF read_wanted(sbuffer) THEN {"server"} ELSE {})
                     \cup (IF read_wanted(cbuffer) THEN {"client"} ELSE {})
           want_w == (IF BUFFER_SIZE(sbuffer) > 0 THEN {"client"} ELSE {})
                     \cup (IF BUFFER_SIZE(cbuffer) > 0 THEN {"server"} ELSE {})
       IN  \/ \E r \in SUBSET want_r, w \in SUBSET want_w :
                 /\ r \cup w # {}
                 /\ rset' = r
                 /\ wset' = w
                 /\ idle_for' = 0
                 /\ pc' = "read_server"
           \/ \E t \in idle_for..(IdleTimeout + 1) :
                 /\ t >= IdleTimeout
                 /\ idle_for' = t
                 /\ pc' = IF idle_expired(t) THEN "timeout" ELSE "select"
                 /\ UNCHANGED <<rset, wset>>
           \/ /\ pc' = "return"
              /\ UNCHANGED <<rset, wset, idle_for>>
    /\ UNCHANGED <<config, client_sent, trail, conn, request, client_out, server_out, opens,
                   stats, destroyed, cbuffer, sbuffer, relay_log>>
    /\ UNCHANGED io_vars

relay_read_server ==
    /\ pc = "read_server"
    /\ IF "server" \in rset
       THEN \E n \in (0 - 1)..Min(Len(server_body), RoomIn(sbuffer)) :
               LET r == read_buffer(server_body, sbuffer, n)
               IN  /\ server_body' = r.src
                   /\ sbuffer' = r.buf
                   /\ relay_log' = Broke(relay_log, r.ret, pc)
                   /\ pc' = after_step(r.ret, "read_client")
       ELSE /\ pc' = "read_client"
            /\ UNCHANGED <<server_body, sbuffer, relay_log>>
    /\ UNCHANGED <<config, client_sent, trail, conn, request, client_out, server_out, opens,
                   stats, destroyed, cbuffer, rset, wset, idle_for>>
    /\ UNCHANGED <<client_in, client_body, client_room, server_resp,
                   server_room>>

relay_read_client ==
    /\ pc = "read_client"
    /\ IF "client" \in rset
       THEN \E n \in (0 - 1)..Min(Len(client_body), RoomIn(cbuffer)) :
               LET r == read_buffer(client_body, cbuffer, n)
               IN  /\ client_body' = r.src
                   /\ cbuffer' = r.buf
                   /\ relay_log' = Broke(relay_log, r.ret, pc)
                   /\ pc' = after_step(r.ret, "write_server")
       ELSE /\ pc' = "write_server"
            /\ UNCHANGED <<client_body, cbuffer, relay_log>>
    /\ UNCHANGED <<config, client_sent, trail, conn, request, client_out, server_out, opens,
                   stats, destroyed, sbuffer, rset, wset, idle_for>>
    /\ UNCHANGED <<client_in, client_room, server_resp, server_body,
                   server_room>>

relay_write_server ==
    /\ pc = "write_server"
    /\ IF "server" \in wset
       THEN \E n \in (0 - 1)..Len(cbuffer) :
               LET w == write_buffer(cbuffer, n)
               IN  /\ cbuffer' = w.buf
                   /\ relay_log' = Broke(ToServer(relay_log, w.out), w.ret, pc)
                   /\ pc' = after_step(w.ret, "write_client")
       ELSE /\ pc' = "write_client"
            /\ UNCHANGED <<cbuffer, relay_log>>
    /\ UNCHANGED <<config, client_sent, trail, conn, request, client_out, server_out, opens,
                   stats, destroyed, sbuffer, rset, wset, idle_for>>
    /\ UNCHANGED io_vars

relay_write_client ==
    /\ pc = "write_client"
    /\ IF "client" \in wset
       THEN \E n \in (0 - 1)..Len(sbuffer) :
               LET w == write_buffer(sbuffer, n)
               IN  /\ sbuffer' = w.buf
                   /\ relay_log' = Broke(ToClient(relay_log, w.out), w.ret, pc)
                   /\ pc' = after_step(w.ret, "select")
       ELSE /\ pc' = "select"
            /\ UNCHANGED <<sbuffer, relay_log>>
    /\ UNCHANGED <<config, client_sent, trail, conn, request, client_out, server_out, opens,
                   stats, destroyed, cbuffer, rset, wset, idle_for>>
    /\ UNCHANGED io_vars

\* After the loop: socket_blocking(client_fd) and the flush of sbuffer
relay_drain_sbuffer ==
    /\ pc = "drain_sbuffer"
    /\ IF BUFFER_SIZE(sbuffer) > 0
       THEN \E n \in {0 - 1} \cup 1..Len(sbuffer) :
               LET w == write_buffer(sbuffer, n)
               IN  /\ sbuffer' = w.buf
                   /\ relay_log' = ToClient(relay_log, w.out)
                   /\ pc' = IF w.ret < 0 THEN "drain_cbuffer" ELSE "drain_sbuffer"
       ELSE /\ pc' = "drain_cbuffer"
            /\ UNCHANGED <<sbuffer, relay_log>>
    /\ UNCHANGED <<config, client_sent, trail, conn, request, client_out, server_out, opens,
                   stats, destroyed, cbuffer, rset, wset, idle_for>>
    /\ UNCHANGED io_vars

\* socket_blocking(server_fd) and the flush of cbuffer, which the code
\* hands to write_buffer with client_fd
relay_drain_cbuffer ==
    /\ pc = "drain_cbuffer"
    /\ IF BUFFER_SIZE(cbuffer) > 0
       THEN \E n \in {0 - 1} \cup 1..Len(cbuffer) :
               LET w == write_buffer(cbuffer, n)
               IN  /\ cbuffer' = w.buf
                   /\ relay_log' = ToClient(relay_log, w.out)
                   /\ pc' = IF w.ret < 0 THEN "return" ELSE "drain_cbuffer"
       ELSE /\ pc' = "return"
            /\ UNCHANGED <<cbuffer, relay_log>>
    /\ UNCHANGED <<config, client_sent, trail, conn, request, client_out, server_out, opens,
                   stats, destroyed, sbuffer, rset, wset, idle_for>>
    /\ UNCHANGED io_vars

\* relay_connection has returned, from the idle test ("timeout"), after a
\* select error or past the two flushes ("return"): destroy_conn(connptr)
hc_relay_return ==
    /\ pc \in {"return", "timeout"}
    /\ pc' = "closed"
    /\ Destroy
    /\ UNCHANGED <<config, client_sent, trail, conn, request, client_out, server_out, opens,
                   stats>>
    /\ UNCHANGED io_vars
    /\ UNCHANGED relay_vars

\* hc_relay_proxy returning without destroy_conn.
hc_relay_proxy_leaking ==
    /\ pc = "relay_proxy"
    /\ trail' = Append(trail, pc)
    /\ pc' = "closed"
    /\ UNCHANGED <<config, client_sent, conn, request, client_out, server_out,
                   opens, stats, destroyed>>
    /\ UNCHANGED io_vars
    /\ UNCHANGED relay_vars

\* relay_proxy taken in one step: relay_connection(connptr) runs to its
\* return and destroy_conn follows.  SpecRelay unfolds the relay itself.
hc_relay_proxy ==
    /\ pc = "relay_proxy"
    /\ trail' = Append(trail, pc)
    /\ pc' = "closed"
    /\ Destroy
    /\ UNCHANGED <<config, client_sent, conn, request, client_out, server_out, opens, stats>>
    /\ UNCHANGED io_vars
    /\ UNCHANGED relay_vars

(***************************************************************************)
(* Inputs and specifications                                               *)
(***************************************************************************)
\* What a client may send: its lines, then the bytes that follow them.
ClientScripts ==
    { [lines |-> <<>>,
       body |-> <<>>],
      [lines |-> << <<"G","E","T"," ","h","t","t","p",":","/","/","a","/"," ","H","T","T","P","/","1",".","0","\r","\n">>,
                  <<"\r","\n">> >>,
       body |-> <<>>],
      [lines |-> << <<"G","E","T"," ","h","t","t","p",":","/","/","a","/","x"," ","H","T","T","P","/","1",".","1","\r","\n">>,
                  <<"H","o","s","t",":"," ","a","\r","\n">>,
                  <<"C","o","n","n","e","c","t","i","o","n",":"," ","c","l","o","s","e","\r","\n">>,
                  <<"\r","\n">> >>,
       body |-> <<>>],
      [lines |-> << <<"G","E","T"," ","h","t","t","p",":","/","/","a","/"," ","H","T","T","P","/","1",".","0","\r","\n">>,
                  <<"H","o","s","t",":"," ","a","\r","\n">> >>,
       body |-> <<>>],
      [lines |-> << <<"G","E","T"," ","h","t","t","p",":","/","/","a","/"," ","H","T","T","P","/","1",".","0","\r","\n">>,
                  <<"j","u","n","k","\r","\n">>,
                  <<"\r","\n">> >>,
       body |-> <<>>],
      [lines |-> << <<"\r","\n">>,
                  <<"G","E","T"," ","h","t","t","p",":","/","/","a","/"," ","H","T","T","P","/","1",".","0","\r","\n">>,
                  <<"\n">> >>,
       body |-> <<>>],
      [lines |-> << <<"G","E","T"," ","/"," ","H","T","T","P","/","1",".","0","\r","\n">>,
                  <<"\r","\n">> >>,
       body |-> <<>>],
      [lines |-> << <<"G","E","T","\r","\n">>,
                  <<"\r","\n">> >>,
       body |-> <<>>],
      [lines |-> << <<"G","E","T"," ","h","t","t","p",":","/","/","/"," ","H","T","T","P","/","1",".","0","\r","\n">>,
                  <<"\r","\n">> >>,
       body |-> <<>>],
      [lines |-> << <<"G","E","T"," ","h","t","t","p",":","/","/","a",":","8","\r","\n">>,
                  <<"\r","\n">> >>,
       body |-> <<>>],
      [lines |-> << <<"C","O","N","N","E","C","T"," ","a",":","8"," ","H","T","T","P","/","1",".","0","\r","\n">>,
                  <<"\r","\n">> >>,
       body |-> <<"x","y">>],
      [lines |-> << <<"C","O","N","N","E","C","T"," ",":"," ","H","T","T","P","/","1",".","0","\r","\n">>,
                  <<"\r","\n">> >>,
       body |-> <<>>],
      [lines |-> << <<"G","E","T"," ","h","t","t","p",":","/","/","s","/"," ","H","T","T","P","/","1",".","0","\r","\n">>,
                  <<"\r","\n">> >>,
       body |-> <<>>],
      [lines |-> << <<"G","E","T"," ","h","t","t","p",":","/","/","f","/"," ","H","T","T","P","/","1",".","0","\r","\n">>,
                  <<"\r","\n">> >>,
       body |-> <<>>],
      [lines |-> << <<"P","O","S","T"," ","h","t","t","p",":","/","/","a","/"," ","H","T","T","P","/","1",".","0","\r","\n">>,
                  <<"C","o","n","t","e","n","t","-","L","e","n","g","t","h",":"," ","1","\r","\n">>,
                  <<"\r","\n">> >>,
       body |-> <<"x">>],
      [lines |-> << <<"P","O","S","T"," ","h","t","t","p",":","/","/","a","/"," ","H","T","T","P","/","1",".","0","\r","\n">>,
                  <<"C","o","n","t","e","n","t","-","L","e","n","g","t","h",":"," ","0","\r","\n">>,
                  <<"\r","\n">> >>,
       body |-> <<>>],
      [lines |-> << <<"P","O","S","T"," ","h","t","t","p",":","/","/","a","/"," ","H","T","T","P","/","1",".","0","\r","\n">>,
                  <<"C","o","n","t","e","n","t","-","L","e","n","g","t","h",":"," ","3","\r","\n">>,
                  <<"\r","\n">> >>,
       body |-> <<"p","q","r","s">>],
      [lines |-> << <<"P","O","S","T"," ","h","t","t","p",":","/","/","a","/"," ","H","T","T","P","/","1",".","0","\r","\n">>,
                  <<"C","o","n","t","e","n","t","-","L","e","n","g","t","h",":"," ","2","\r","\n">>,
                  <<"\r","\n">> >>,
       body |-> <<"p">>] }

\* What the server (origin, upstream or tunnel) may send before closing.
ServerScripts ==
    { [lines |-> <<>>,
       body |-> <<>>],
      [lines |-> << <<"H","T","T","P","/","1",".","0"," ","2","0","0"," ","O","K","\r","\n">> >>,
       body |-> <<>>],
      [lines |-> << <<"H","T","T","P","/","1",".","0"," ","2","0","0"," ","O","K","\r","\n">>,
                  <<"\r","\n">> >>,
       body |-> <<"z">>],
      [lines |-> << <<"H","T","T","P","/","1",".","0"," ","2","0","0"," ","O","K","\r","\n">>,
                  <<"X",":"," ","y","\r","\n">>,
                  <<"\n">>,
                  <<"m","o","r","e","\r","\n">>,
                  <<"\r","\n">> >>,
       body |-> <<>>] }

Configs ==
    [tunnel : BOOLEAN, upstream : BOOLEAN, filter : BOOLEAN,
     stathost : BOOLEAN, anonymous : {FALSE}, my_domain : {FALSE}]
    \cup [tunnel : BOOLEAN, upstream : BOOLEAN, filter : {FALSE},
          stathost : {FALSE}, anonymous : {FALSE}, my_domain : {TRUE}]

InitConn ==
    /\ conn = initialize_conn
    /\ request = NoRequest
    /\ client_out = <<>>
    /\ server_out = <<>>
    /\ opens = <<>>
    /\ stats = [denied |-> 0, badconn |-> 0]
    /\ destroyed = 0
    /\ cbuffer = <<>>
    /\ sbuffer = <<>>
    /\ rset = {}
    /\ wset = {}
    /\ idle_for = 0
    /\ relay_log = [from_client |-> <<>>, from_server |-> <<>>,
                    to_client |-> <<>>, to_server |-> <<>>,
                    broke_at |-> "none"]

\* handle_connection right after initialize_conn succeeded.
Init ==
    /\ config \in Configs
    /\ pc = "check_acl"
    /\ trail = <<>>
    /\ \E c \in ClientScripts : client_in = c.lines /\ client_body = c.body
    /\ client_sent = client_in
    /\ \E v \in ServerScripts : server_resp = v.lines /\ server_body = v.body
    /\ client_room \in {Unlimited, 0, 1}
    /\ server_room \in {Unlimited, 0, 2}
    /\ InitConn

Next ==
    \/ hc_check_acl
    \/ connect_to_tunnel
    \/ hc_read_request_line
    \/ hc_process_request
    \/ hc_connect
    \/ hc_send_error
    \/ hc_response
    \/ hc_relay_proxy

Spec == Init /\ [][Next]_vars

(***************************************************************************)
(* Request parsing and emission over every short URL                       *)
(***************************************************************************)
\* Length of the URL after its scheme, and number of client header lines.
MaxTail == 4

MaxHdrs == 2

UrlAlphabet == {"a", ":", "/", "8"}

UrlTails == UNION {[1..k -> UrlAlphabet] : k \in 0..MaxTail}

sGET == <<"G","E","T">>

sHTTP_1_0 == <<"H","T","T","P","/","1",".","0">>

RequestLine(method, url) ==
    method \o <<" ">> \o url \o <<" ">> \o sHTTP_1_0 \o CRLF

\* URLs with a port of every width, with and without a path.
PortSamples == {0, 80, 9999, 10000, 65535, 65536}

PortUrls ==
    {<<"a", ":">> \o FmtDec(p) \o t :
        p \in PortSamples, t \in {<<>>, <<"/">>, <<"/", "x">>, <<"x">>}}

\* Request lines outside the two families above: other letter cases and
\* a line without a protocol token.
OddRequestLines ==
    { RequestLine(sGET, <<"H","t","T","p",":","/","/","a","/","x">>),
      RequestLine(<<"c","o","n","n","e","c","t">>, <<"a",":","8">>),
      RequestLine(<<"c","o","n","n","e","c","t">>, <<"h","t","t","p",":","/","/","a">>),
      sGET \o <<" ">> \o sHttpScheme \o <<"a",":","8">> \o CRLF,
      sCONNECT \o <<" ">> \o <<"a",":","8">> \o CRLF }

RequestLines ==
    {RequestLine(m, pre \o t) :
        m \in {sGET, sCONNECT}, pre \in {<<>>, sHttpScheme},
        t \in UrlTails \cup PortUrls}
    \cup OddRequestLines

\* Header lines a client may send: those of HeaderPool in every order and
\* number up to MaxHdrs, those of HopHeaders one at a time.
HeaderPool ==
    { <<"H","o","s","t",":"," ","b","\r","\n">>,
      <<"H","O","S","T",":"," ","c","\r","\n">>,
      <<"C","o","n","n","e","c","t","i","o","n",":"," ","c","l","o","s","e","\r","\n">>,
      <<"c","o","n","n","e","c","t","i","o","n",":"," ","A","c","c","e","p","t","\r","\n">>,
      <<"C","o","n","n","e","c","t","i","o","n",":"," ","c","o","n","n","e","c","t","i","o","n","\r","\n">>,
      <<"A","c","c","e","p","t",":"," ","z","\r","\n">>,
      <<"C","o","o","k","i","e",":"," ","k","\r","\n">> }

HopHeaders ==
    { <<"K","e","e","p","-","A","l","i","v","e",":"," ","1","\r","\n">>,
      <<"P","r","o","x","y","-","A","u","t","h","e","n","t","i","c","a","t","e",":"," ","p","\r","\n">>,
      <<"P","r","o","x","y","-","A","u","t","h","o","r","i","z","a","t","i","o","n",":"," ","q","\r","\n">>,
      <<"T","E",":"," ","x","\r","\n">>,
      <<"T","r","a","i","l","e","r","s",":"," ","t","\r","\n">>,
      <<"T","r","a","n","s","f","e","r","-","E","n","c","o","d","i","n","g",":"," ","c","\r","\n">>,
      <<"U","p","g","r","a","d","e",":"," ","u","\r","\n">>,
      <<"V","i","a",":"," ","v","\r","\n">> }

\* Longer blocks mixing the two.
MixedBlocks ==
    { << <<"H","o","s","t",":"," ","b","\r","\n">>,
         <<"C","o","n","n","e","c","t","i","o","n",":"," ","c","l","o","s","e","\r","\n">>,
         <<"A","c","c","e","p","t",":"," ","z","\r","\n">> >>,
      << <<"A","c","c","e","p","t",":"," ","z","\r","\n">>,
         <<"c","o","n","n","e","c","t","i","o","n",":"," ","A","c","c","e","p","t",","," ","t","e","\r","\n">>,
         <<"H","O","S","T",":"," ","c","\r","\n">>,
         <<"T","E",":"," ","x","\r","\n">> >>,
      << <<"V","i","a",":"," ","v","\r","\n">>,
         <<"H","o","s","t",":"," ","b","\r","\n">>,
         <<"H","o","s","t",":"," ","c","\r","\n">>,
         <<"U","p","g","r","a","d","e",":"," ","u","\r","\n">>,
         <<"C","o","n","n","e","c","t","i","o","n",":"," ","U","p","g","r","a","d","e","\r","\n">> >>,
      << <<"V","i","a",":"," ","v","\r","\n">>,
         <<"C","o","n","n","e","c","t","i","o","n",":"," ","V","i","a","\r","\n">> >>,
      << <<"V","i","a",":"," ","v","\r","\n">>,
         <<"C","o","n","n","e","c","t","i","o","n",":"," ","c","o","n","n","e","c","t","i","o","n","\r","\n">> >>,
      << <<"V","i","a",":"," ","v","\r","\n">>,
         <<"V","I","A",":"," ","w","\r","\n">>,
         <<"C","o","o","k","i","e",":"," ","k","\r","\n">> >>,
      << <<"C","o","n","t","e","n","t","-","L","e","n","g","t","h",":"," ","1","\r","\n">>,
         <<"C","o","n","n","e","c","t","i","o","n",":"," ","C","o","n","t","e","n","t","-","L","e","n","g","t","h",","," ","C","o","o","k","i","e","\r","\n">>,
         <<"C","o","o","k","i","e",":"," ","k","\r","\n">> >>,
      << <<"C","o","n","n","e","c","t","i","o","n",":"," ","c","l","o","s","e","\r","\n">>,
         <<"C","o","n","n","e","c","t","i","o","n",":"," ","A","c","c","e","p","t","\r","\n">>,
         <<"A","c","c","e","p","t",":"," ","z","\r","\n">> >>,
      << <<"A","c","c","e","p","t",":"," ","z","\r","\n">>,
         <<"C","o","n","n","e","c","t","i","o","n",":"," ","c","o","n","n","e","c","t","i","o","n",","," ","A","c","c","e","p","t","\r","\n">> >>,
      << <<"A","c","c","e","p","t",":"," ","z","\r","\n">>,
         <<"C","o","n","n","e","c","t","i","o","n",":"," ","\r","\n">> >>,
      << <<"A","c","c","e","p","t",":"," ","z","\r","\n">>,
         <<"C","o","n","n","e","c","t","i","o","n",":"," ",",","A","c","c","e","p","t",",",";","\r","\n">> >> }

HeaderBlocks ==
    UNION {[1..k -> HeaderPool] : k \in 0..MaxHdrs}
    \cup {<<h>> : h \in HopHeaders}
    \cup MixedBlocks

PlainRequests ==
    { RequestLine(sGET, sHttpScheme \o <<"a", "/">>),
      RequestLine(sCONNECT, <<"a", ":", "8">>) }

ReqConfigs ==
    [tunnel : {FALSE}, upstream : BOOLEAN, filter : {FALSE},
     stathost : {FALSE}, anonymous : BOOLEAN, my_domain : {FALSE}]

\* handle_connection at internal_proxy: the ACL let the client in, no tunnel
\* is configured, and neither socket ever breaks.
InitReq ==
    /\ config \in ReqConfigs
    /\ pc = "internal_proxy"
    /\ trail = <<"check_acl">>
    /\ \/ /\ ~config.anonymous
          /\ client_in \in {<<l, CRLF>> : l \in RequestLines}
       \/ client_in \in {<<l>> \o h \o <<CRLF>> :
                            l \in PlainRequests, h \in HeaderBlocks}
    /\ client_sent = client_in
    /\ client_body = <<>>
    /\ server_resp = <<>>
    /\ server_body = <<>>
    /\ client_room = Unlimited
    /\ server_room = Unlimited
    /\ InitConn

NextReq ==
    \/ hc_read_request_line
    \/ hc_process_request
    \/ hc_connect
    \/ hc_send_error

SpecReq == InitReq /\ [][NextReq]_vars

(***************************************************************************)
(* The relay of a CONNECT tunnel, step by step                             *)
(***************************************************************************)
\* Length of the byte stream each peer sends.
MaxStream == 2

ClientStream == <<"c1", "c2", "c3", "c4">>

ServerStream == <<"s1", "s2", "s3", "s4">>

ConnectLine == <<"C","O","N","N","E","C","T"," ","a",":","8"," ","H","T","T","P","/","1",".","0">>

\* handle_connection at relay_proxy for "CONNECT a:8 HTTP/1.0" without an
\* upstream: the origin is connected and the greeting is written.
InitRelay ==
    /\ config = [tunnel |-> FALSE, upstream |-> FALSE, filter |-> FALSE,
                 stathost |-> FALSE, anonymous |-> FALSE, my_domain |-> FALSE]
    /\ pc = "relay_proxy"
    /\ trail = <<"check_acl", "internal_proxy", "process_request", "connect",
                 "send_error", "response">>
    /\ client_sent = <<ConnectLine \o CRLF, CRLF>>
    /\ client_in = <<>>
    /\ client_body \in {Take(ClientStream, n) : n \in 0..MaxStream}
    /\ server_resp = <<>>
    /\ server_body \in {Take(ServerStream, n) : n \in 0..MaxStream}
    /\ client_room = Unlimited
    /\ server_room = Unlimited
    /\ conn = [server_fd |-> ServerFd, connect_method |-> TRUE,
               response_message_sent |-> FALSE,
               protocol |-> [major |-> 1, minor |-> 0],
               request_line |-> ConnectLine]
    /\ request = NoRequest
    /\ client_out = ClientWrites(<<>>, send_ssl_response_lines)
    /\ server_out = <<>>
    /\ opens = << [to |-> "origin", host |-> <<"a">>, port |-> 8, ok |-> TRUE] >>
    /\ stats = [denied |-> 0, badconn |-> 0]
    /\ destroyed = 0
    /\ cbuffer = <<>>
    /\ sbuffer = <<>>
    /\ rset = {}
    /\ wset = {}
    /\ idle_for = 0
    /\ relay_log = [from_client |-> <<>>, from_server |-> <<>>,
                    to_client |-> <<>>, to_server |-> <<>>,
                    broke_at |-> "none"]

NextRelay ==
    \/ relay_enter
    \/ relay_select
    \/ relay_read_server
    \/ relay_read_client
    \/ relay_write_server
    \/ relay_write_client
    \/ relay_drain_sbuffer
    \/ relay_drain_cbuffer
    \/ hc_relay_return

SpecRelay == InitRelay /\ [][NextRelay]_vars

\* The same with progress: select returns and the clock advances, the
\* blocking writes after the loop return, and handle_connection goes on
\* once relay_connection has returned.
SpecRelayLive ==
    /\ InitRelay
    /\ [][NextRelay]_vars
    /\ WF_vars(relay_select)
    /\ WF_vars(relay_drain_sbuffer)
    /\ WF_vars(relay_drain_cbuffer)
    /\ WF_vars(hc_relay_return)


(***************************************************************************)
(* Properties                                                              *)
(***************************************************************************)
Range(seq) == {seq[i] : i \in 1..Len(seq)}

IsPrefix(a, b) == Len(a) <= Len(b) /\ Take(b, Len(a)) = a

\* Number of HTTP error bodies written to the client.
ErrorBodies == Len(SelectSeq(client_out, LAMBDA e : e.kind = "httperr"))

RelayEntered == "relay_proxy" \in Range(trail)

Terminated == pc = "closed"

\* The tokens of the request line the connection holds, and its URL parsed.
RequestTokens == sscanf(conn.request_line, FmtRequestLine)

HasUrl == Len(RequestTokens) >= 2

HttpUrl == HasUrl /\ strncaseeq(RequestTokens[2], sHttpScheme)

ParsedUrl ==
    IF HttpUrl THEN extract_http_url(sHttp4 \o Drop(RequestTokens[2], 4))
    ELSE extract_ssl_url(RequestTokens[2])

\* The request target of the request line written to the server.
TargetOf(line) == ScanNotSet(Drop(line, SpanNotIn(line, {" "}) + 1), {" "}).val

Emitted == server_out # <<>>

EmittedTarget == TargetOf(server_out[1])

NoSeparator(host) == \A i \in 1..Len(host) : host[i] \notin {":", "/"}

HeaderName(line) == LowerStr(Take(line, SpanNotIn(line, {":"})))

\* C1: on every execution of handle_connection at most one HTTP error body
\* is written to the client (httperr is invoked at most once).
C1_AtMostOneErrorBody == ErrorBodies <= 1

\* C2 as stated: a terminated connection has entered the relay, or has had
\* exactly one error body written, or was closed with no byte written to the
\* client, and only one of the three.
C2_ExactlyOneOutcome ==
    Terminated =>
        /\ ErrorBodies <= 1
        /\ ~(RelayEntered /\ ErrorBodies = 1)
        /\ (~RelayEntered /\ ErrorBodies = 0) => client_out = <<>>

\* C2, amended: for a terminated connection, entering the relay and writing
\* an error body exclude each other; two error bodies are written only
\* after a failed tunnel connect, never more; a connection closed with
\* neither has bytes written to the client only when it was closed in the
\* response phase (server header lines or greeting lines already copied) or
\* by process_request returning NULL without an error (a stathost request,
\* answered by showstats).
C2_OutcomesAmended ==
    Terminated =>
        /\ ~(RelayEntered /\ ErrorBodies >= 1)
        /\ ErrorBodies <= 2
        /\ ErrorBodies = 2 => "tunnel" \in Range(trail)
        /\ (~RelayEntered /\ ErrorBodies = 0 /\ client_out # <<>>) =>
              trail[Len(trail)] \in {"response", "process_request"}

C2_SilentCloseWithBytes ==
    /\ Terminated
    /\ ~RelayEntered
    /\ ErrorBodies = 0
    /\ client_out # <<>>
    /\ trail[Len(trail)] = "response"

\* C3: a connection that entered the tunnel bootstrap never reads or parses
\* a request line, never dials an origin or an upstream proxy and never
\* emits a request to a server.
C3_TunnelBranchOnly ==
    "tunnel" \in Range(trail) =>
        /\ Range(trail) \cap {"internal_proxy", "process_request", "connect"} = {}
        /\ \A i \in 1..Len(opens) : opens[i].to = "tunnel"
        /\ server_out = <<>>

\* C4: in CONNECT mode the bytes the relay writes to the server are a
\* prefix of the bytes received from the client, and the bytes it writes to
\* the client are a prefix of the bytes received from the server, the
\* post-loop drain included.
C4_RelayKeepsStreams ==
    /\ IsPrefix(relay_log.to_server, relay_log.from_client)
    /\ IsPrefix(relay_log.to_client, relay_log.from_server)

\* The hop-by-hop names of C5.
HopByHopNames ==
    { <<"h","o","s","t">>,
      <<"c","o","n","n","e","c","t","i","o","n">>,
      <<"k","e","e","p","-","a","l","i","v","e">>,
      <<"p","r","o","x","y","-","a","u","t","h","e","n","t","i","c","a","t","e">>,
      <<"p","r","o","x","y","-","a","u","t","h","o","r","i","z","a","t","i","o","n">>,
      <<"t","e">>,
      <<"t","r","a","i","l","e","r","s">>,
      <<"t","r","a","n","s","f","e","r","-","e","n","c","o","d","i","n","g">>,
      <<"u","p","g","r","a","d","e">> }

\* C5: every request emitted to a server on a socket that does not break
\* holds exactly one Host header (its second line), exactly one Connection
\* header, "Connection: close" (its third line), and no other line named
\* host, connection, keep-alive, proxy-authenticate, proxy-authorization,
\* te, trailers, transfer-encoding or upgrade.
C5_HopByHopStripped ==
    Emitted =>
        /\ Len(server_out) >= 3
        /\ HeaderName(server_out[2]) = <<"h","o","s","t">>
        /\ server_out[3] = sConnectionClose
        /\ \A i \in 4..Len(server_out) :
              HeaderName(server_out[i]) \notin HopByHopNames

C5_ForwardedWithHostAndConnection ==
    /\ pc = "response"
    /\ Len(server_out) >= 6
    /\ \E i \in 1..Len(client_sent) :
          HeaderName(client_sent[i]) = <<"h","o","s","t">>
    /\ \E i \in 1..Len(client_sent) :
          HeaderName(client_sent[i]) = <<"c","o","n","n","e","c","t","i","o","n">>

\* C6: the host the parser yields never contains ':' or '/', and without an
\* upstream the proxy dials exactly that host.
C6_HostHasNoSeparator ==
    /\ pc = "connect" => NoSeparator(request.host)
    /\ \A i \in 1..Len(opens) :
          opens[i].to = "origin" => NoSeparator(opens[i].host)

\* C7: for an accepted absolute http URL in direct-origin mode the path of
\* the request line emitted to the server begins with '/'.
C7_EmittedPathBeginsWithSlash ==
    (Emitted /\ ~config.upstream /\ ~conn.connect_method) =>
        /\ EmittedTarget # <<>>
        /\ EmittedTarget[1] = "/"

\* C8 as stated: the emitted request target is in absolute form if and only
\* if an upstream proxy is configured.
C8_AbsoluteIffUpstream ==
    Emitted => (strncaseeq(EmittedTarget, sHttpScheme) <=> config.upstream)

\* C8, amended: with an upstream and a method other than CONNECT the
\* emitted target is exactly "http://" HOST ":" PORT followed by the parsed
\* path, nothing cut off; with an upstream and CONNECT it is not in absolute
\* form but the authority HOST ":" PORT or a prefix of it; without an
\* upstream it is the parsed path as it is.
C8_EmittedTargetAmended ==
    Emitted =>
        IF conn.connect_method
        THEN /\ config.upstream
             /\ ~strncaseeq(EmittedTarget, sHttpScheme)
             /\ IsPrefix(EmittedTarget,
                         ParsedUrl.host \o <<":">> \o FmtDec(ParsedUrl.port))
        ELSE IF config.upstream
        THEN EmittedTarget = sHttpScheme \o ParsedUrl.host \o <<":">>
                             \o FmtDec(ParsedUrl.port) \o ParsedUrl.path
        ELSE EmittedTarget = ParsedUrl.path

C8_AbsoluteFormWithWidePort ==
    /\ Emitted
    /\ config.upstream
    /\ ~conn.connect_method
    /\ ParsedUrl.port = 65535
    /\ Len(ParsedUrl.path) = 2
    /\ Len(EmittedTarget) = 16

\* C9: with CONNECT and an upstream proxy the request line emitted to the
\* upstream is exactly "CONNECT HOST:PORT HTTP/1.0" with every digit of the
\* port.
C9_ConnectLineHasFullPort ==
    (Emitted /\ config.upstream /\ conn.connect_method) =>
        server_out[1] = sCONNECT \o <<" ">> \o ParsedUrl.host \o <<":">>
                        \o FmtDec(ParsedUrl.port) \o sHTTP10

\* The request of C10: a URL that does not begin with "http://" in any
\* letter case, and a method other than CONNECT.
UnknownUrlType ==
    /\ HasUrl
    /\ ~strncaseeq(RequestTokens[2], sHttpScheme)
    /\ RequestTokens[1] # sCONNECT

\* C10: such a request is answered with a 400 response and no connection to
\* an origin or an upstream is opened for it afterwards.
C10_UnknownUrlTypeRefused ==
    (UnknownUrlType /\ "process_request" \in Range(trail)) =>
        /\ \E i \in 1..Len(client_out) :
              client_out[i] = [kind |-> "httperr", code |-> 400]
        /\ opens = <<>>
        /\ conn.server_fd = -1
        /\ server_out = <<>>

C10_RefusedAndClosed ==
    /\ pc = "closed"
    /\ UnknownUrlType
    /\ client_out = <<[kind |-> "httperr", code |-> 400]>>
    /\ opens = <<>>

\* The parse errors of process_request: fewer than two tokens on the request
\* line, an http URL or a CONNECT authority that does not parse, or a URL of
\* unknown type.
ParseError ==
    /\ "process_request" \in Range(trail)
    /\ \/ ~HasUrl
       \/ UnknownUrlType
       \/ ParsedUrl.ret < 0

\* C11: a connection closed after a parse error has had a 400 response
\* written to the client, has incremented the bad-connection counter and
\* has been destroyed.
C11_ParseErrorCounted ==
    (Terminated /\ ParseError) =>
        /\ \E i \in 1..Len(client_out) :
              client_out[i] = [kind |-> "httperr", code |-> 400]
        /\ stats.badconn >= 1
        /\ destroyed = 1

\* The request line held by the connection has a URL that process_request
\* parses: absolute http, or a CONNECT authority.
UrlParsed == HasUrl /\ ~UnknownUrlType /\ ParsedUrl.ret = 0

\* The request of C12 has gone through process_request: filtering is
\* enabled and filter_url matches the parsed host.
FilteredRequest ==
    /\ "process_request" \in Range(trail)
    /\ config.filter
    /\ UrlParsed
    /\ filter_url(ParsedUrl.host)

\* C12: for such a request the last thing written to the client is the 404
\* error body, never the stats page, even when the host is the stathost;
\* the denied counter is 1; no connection to an origin or an upstream is
\* attempted and nothing is written to a server.
C12_FilteredBeforeStathost ==
    FilteredRequest =>
        /\ client_out # <<>>
        /\ client_out[Len(client_out)] = [kind |-> "httperr", code |-> 404]
        /\ \A i \in 1..Len(client_out) : client_out[i].kind # "stats"
        /\ stats.denied = 1
        /\ \A i \in 1..Len(opens) : opens[i].to = "tunnel" /\ ~opens[i].ok
        /\ conn.server_fd = -1
        /\ server_out = <<>>

C12_FilteredStathostClosed ==
    /\ Terminated
    /\ FilteredRequest
    /\ config.stathost
    /\ ParsedUrl.host = StatHostName
    /\ client_out = <<[kind |-> "httperr", code |-> 404]>>
    /\ stats.denied = 1

\* C13: the relay returns by timeout only when more than idletimeout
\* seconds have passed since the last readiness event; a relay waiting in
\* select eventually sees a socket ready or returns, and the connection is
\* then destroyed, once; the relay writes no HTTP error body.
C13_IdleTimeoutEndsRelay ==
    /\ [](pc = "timeout" => idle_for > IdleTimeout)
    /\ [](pc \in {"select", "timeout"} => destroyed = 0)
    /\ [](RelayEntered => ErrorBodies = 0)
    /\ (pc = "select") ~> (pc = "read_server" \/ Terminated)
    /\ (pc = "timeout") ~> (Terminated /\ destroyed = 1 /\ ErrorBodies = 0)

C13_ClosedAfterIdle ==
    /\ Terminated
    /\ idle_for > IdleTimeout
    /\ destroyed = 1
    /\ ErrorBodies = 0
    /\ relay_log.to_client # <<>>

\* The opensock calls that returned a descriptor.
OpenedSockets == {i \in 1..Len(opens) : opens[i].ok}

\* C14: destroy_conn is called at most once, handle_connection has
\* returned exactly when it has been called, and no step follows it; at
\* most one server socket is opened, and the connection holds it from then
\* on, so that destroy_conn finds it.
C14_DestroyedExactlyOnce ==
    /\ [](destroyed \in {0, 1})
    /\ [](Terminated <=> destroyed = 1)
    /\ [](Cardinality(OpenedSockets) <= 1)
    /\ [](conn.server_fd = ServerFd <=> OpenedSockets # {})
    /\ [][destroyed = 0 /\ destroyed' \in {0, 1}]_vars

C14_ServerSocketHeldAtFailure ==
    /\ Terminated
    /\ destroyed = 1
    /\ ~RelayEntered
    /\ conn.server_fd = ServerFd
    /\ stats.badconn = 1

\* The bytes the client sends after its lines, before it closes.
SentBody == (CHOOSE c \in ClientScripts : c.lines = client_sent).body

\* The header block the client sent after its request line, as
\* process_client_headers reads it, and the Content-Length it captures.
SentHeaders == get_all_headers(read_request_line(client_sent).rest, <<>>)

CapturedLength == content_length_of(strip_connection(SentHeaders.map, {}))

\* process_client_headers was the last stage to run and it reached the
\* point where the headers are forwarded.
HeadersForwarded ==
    /\ trail # <<>>
    /\ trail[Len(trail)] = "send_error"
    /\ pc # "fault"
    /\ SentHeaders.ret = 0
    /\ conn.server_fd = ServerFd
    /\ ~(conn.connect_method /\ ~config.upstream)

\* What was written to the server after the blank line that ends the
\* header block.
RECURSIVE AfterBlankLine(_)
AfterBlankLine(ws) ==
    IF ws = <<>> THEN <<>>
    ELSE IF Head(ws) = CRLF THEN Flatten(Tail(ws))
    ELSE AfterBlankLine(Tail(ws))

\* C15: with a captured Content-Length N >= 0, a client that supplies at
\* least N body bytes and a server socket that does not break, the body pump
\* succeeds, takes exactly N bytes from the client and writes exactly those
\* to the server, or none of them when a response was already sent.
C15_BodyPumpedExactly ==
    (/\ HeadersForwarded
     /\ CapturedLength >= 0
     /\ Len(SentBody) >= CapturedLength
     /\ server_room = Unlimited) =>
        /\ stats.badconn = 0
        /\ client_body = Drop(SentBody, CapturedLength)
        /\ AfterBlankLine(server_out) =
               IF conn.response_message_sent THEN <<>>
               ELSE Take(SentBody, CapturedLength)

\* The names of the client headers written to the server after the request
\* line, Host, "Connection: close" and Via.
RemainingEmitted ==
    {HeaderName(server_out[i]) : i \in {j \in 5..Len(server_out) :
                                           server_out[j] # CRLF}}

\* The client headers left once those named by Connection, Connection
\* itself, Via and skipheaders are removed.
RemainingSent ==
    hashmap_remove_all(hashmap_remove(strip_connection(SentHeaders.map, {}),
                                      sVia),
                       skipheaders)

\* The Connection header names itself.
ConnectionNamesItself ==
    /\ hashmap_has(SentHeaders.map, sConnection)
    /\ NamesItself(hashmap_search(SentHeaders.map, sConnection))

\* C16: in anonymous mode a remaining client header is written to the
\* server only if its name is in the allow-list; otherwise every remaining
\* header is written.
C16_AnonymousAllowList ==
    (HeadersForwarded /\ server_room = Unlimited) =>
        IF config.anonymous
        THEN RemainingEmitted \subseteq AnonymousAllowed
        ELSE ConnectionNamesItself \/ RemainingEmitted = KeySet(RemainingSent)

\* The proxy's own Via segment: "<maj>.<min> <hostname> (<pkg>/<ver>)".
OwnViaSegment ==
    FmtDec(conn.protocol.major) \o <<".">> \o FmtDec(conn.protocol.minor)
    \o <<" ">> \o HostName \o <<" ", "(">> \o Package \o <<"/">> \o Version
    \o <<")">>

ViaLinesEmitted ==
    {i \in 1..Len(server_out) : HeaderName(server_out[i]) = sVia}

\* C17: a forwarded request holds exactly one Via header; it is the proxy's
\* segment alone when the client sent no Via header, and otherwise the
\* client's Via value, ", " and the proxy's segment.
C17_ExactlyOneVia ==
    (HeadersForwarded /\ server_room = Unlimited) =>
        /\ Cardinality(ViaLinesEmitted) = 1
        /\ \A i \in ViaLinesEmitted :
              server_out[i] =
                  <<"V","i","a",":"," ">>
                  \o (IF hashmap_has(SentHeaders.map, sVia)
                      THEN hashmap_search(SentHeaders.map, sVia) \o <<",", " ">>
                      ELSE <<>>)
                  \o OwnViaSegment \o CRLF

ClientData ==
    LET d == SelectSeq(client_out, LAMBDA e : e.kind = "data")
    IN  [i \in 1..Len(d) |-> d[i].data]

ResponsePhaseRan == "response" \in Range(trail)

GreetingCase == conn.connect_method /\ ~config.upstream

\* C19: raw bytes reach the client only in the response phase, which runs
\* only with a server socket open and the client's header block read.  In
\* that phase the client is written the "200 Connection established"
\* greeting, and nothing of what the server sends, exactly when
\* connect_method is set and no upstream is configured; in the other case
\* it is written the server's lines as they come, and the relay is entered
\* only once the whole greeting, or the server's lines up to and including
\* the first blank one and none after it, have been written.
C19_GreetingOrServerHeaders ==
    /\ ClientData # <<>> => ResponsePhaseRan
    /\ ResponsePhaseRan =>
          /\ conn.server_fd = ServerFd
          /\ \E i \in 1..Len(opens) : opens[i].ok
          /\ SentHeaders.ret = 0
          /\ "send_error" \in Range(trail)
          /\ IF GreetingCase
             THEN /\ IsPrefix(ClientData, send_ssl_response_lines)
                  /\ server_resp \in {v.lines : v \in ServerScripts}
                  /\ RelayEntered => ClientData = send_ssl_response_lines
             ELSE /\ client_room = Unlimited =>
                        ClientData \o server_resp
                            \in {v.lines : v \in ServerScripts}
                  /\ \E v \in ServerScripts : IsPrefix(ClientData, v.lines)
                  /\ \A i \in 1..(Len(ClientData) - 1) :
                        ~CHECK_CRLF(ClientData[i])
                  /\ RelayEntered =>
                        /\ ClientData # <<>>
                        /\ CHECK_CRLF(ClientData[Len(ClientData)])

C19_CopiedUpToBlankLine ==
    /\ Terminated
    /\ RelayEntered
    /\ ResponsePhaseRan
    /\ conn.connect_method
    /\ config.upstream
    /\ Len(ClientData) = 3
    /\ Len(server_resp) = 2

\* The header names the client's Connection headers list, lowercased.
RECURSIVE TokenNames(_)
TokenNames(toks) ==
    IF toks = <<>> THEN {}
    ELSE {LowerStr(Head(toks))} \cup TokenNames(Tail(toks))

NamedByConnection ==
    UNION {TokenNames(ConnectionTokens(SentHeaders.map[i].data)) :
               i \in {j \in 1..Len(SentHeaders.map) :
                          SentHeaders.map[j].key = sConnection}}

\* C20: no client header named by a token of a Connection header the client
\* sent is written to the server, nor is a client Connection header; a Via
\* header so named is not carried into the Via line, and a Content-Length
\* so named starts no body pump.
C20_ConnectionNamedHeadersRemoved ==
    (HeadersForwarded /\ server_room = Unlimited) =>
        /\ RemainingEmitted \cap (NamedByConnection \cup {sConnection}) = {}
        /\ sVia \in NamedByConnection =>
               server_out[4] = <<"V","i","a",":"," ">> \o OwnViaSegment \o CRLF
        /\ sContentLength \in NamedByConnection => stats.badconn = 0

\* The relay has ended: relay_connection is at one of its returns, or
\* handle_connection has gone on past it.
RelayEnded == RelayEntered /\ pc \in {"return", "timeout", "closed"}

\* The bytes the relay has taken from each peer.
TakenFromClient ==
    Take(relay_log.from_client, Len(relay_log.from_client) - Len(client_body))

TakenFromServer ==
    Take(relay_log.from_server, Len(relay_log.from_server) - Len(server_body))

\* C21: when the relay has ended, what it took from the server has gone to
\* the client socket, and what it took from the client has gone to the
\* server socket and never to the client socket, except for what a failed
\* write left in a buffer; when it ended without any write after the loop
\* (the idle timeout), no byte is left in either buffer.
C21_RelayEndFlushesBoth ==
    RelayEnded =>
        /\ TakenFromServer = relay_log.to_client \o sbuffer
        /\ TakenFromClient = relay_log.to_server \o cbuffer
        /\ idle_expired(idle_for) => (sbuffer = <<>> /\ cbuffer = <<>>)

\* An outbound connect (tunnel, upstream or origin) has succeeded and the
\* connection holds its descriptor.
ServerConnected == conn.server_fd = ServerFd /\ OpenedSockets # {}

\* C22: nothing is written to the server socket, the response phase is not
\* started and the relay is not entered unless an outbound connect has
\* succeeded; while the server handle is absent the client's body is left
\* unread.
C22_NoServerWriteBeforeConnect ==
    /\ server_out # <<>> => ServerConnected
    /\ (pc \in {"response", "relay_proxy"} \/ RelayEntered) => ServerConnected
    /\ conn.server_fd = -1 <=> OpenedSockets = {}
    /\ (conn.server_fd = -1 /\ client_sent # <<>>) => client_body = SentBody

C22_HeadersReadWithoutServer ==
    /\ Terminated
    /\ conn.server_fd = -1
    /\ config.my_domain
    /\ Len(opens) = 1
    /\ SentHeaders.ret = 0
    /\ client_in = <<>>
    /\ client_body # <<>>
    /\ server_out = <<>>


\* The four read and write steps of one iteration of the relay loop, in the
\* order the code takes them.
LoopSteps == <<"read_server", "read_client", "write_server", "write_client">>

InLoop == \E i \in 1..Len(LoopSteps) : pc = LoopSteps[i]

AfterLoop == pc \in {"drain_sbuffer", "drain_cbuffer", "return", "closed"}

\* C23: in the relay loop a read that reports end of stream or an error, or
\* a write that reports an error, leaves the loop at that step: the steps
\* are taken in the order server read, client read, server write, client
\* write, the step that failed moves nothing and is followed by the code
\* after the loop, no later step reads a socket or writes to the server,
\* and the relay then returns and the connection is destroyed, once, with
\* no HTTP error body written.
C23_FailedStepBreaksLoop ==
    /\ [](relay_log.broke_at # "none" => AfterLoop)
    /\ [](RelayEntered => ErrorBodies = 0)
    /\ [][\A i \in 1..Len(LoopSteps) :
            pc = LoopSteps[i] =>
                \/ pc' = "drain_sbuffer" /\ relay_log'.broke_at = LoopSteps[i]
                      /\ UNCHANGED <<cbuffer, sbuffer, client_body, server_body>>
                \/ pc' = (IF i < Len(LoopSteps) THEN LoopSteps[i + 1] ELSE "select")
                      /\ relay_log'.broke_at = "none"]_vars
    /\ [][relay_log.broke_at # "none" =>
            /\ UNCHANGED <<client_body, server_body, client_out, server_out>>
            /\ relay_log'.to_server = relay_log.to_server
            /\ relay_log'.broke_at = relay_log.broke_at]_vars
    /\ (relay_log.broke_at # "none") ~> (Terminated /\ destroyed = 1 /\ ErrorBodies = 0)

C23_BrokeAtClientRead ==
    /\ Terminated
    /\ destroyed = 1
    /\ relay_log.broke_at = "read_client"
    /\ "server" \in wset
    /\ "client" \in wset
    /\ relay_log.to_server = <<>>
    /\ ErrorBodies = 0


\* The Connection value remove_connection_headers walks over, once
\* process_client_headers has reached the walk.
WalkedValue == hashmap_search(SentHeaders.map, sConnection)

WalkReached ==
    /\ "send_error" \in Range(trail)
    /\ SentHeaders.ret >= 0
    /\ ~headers_not_sent(conn, config)
    /\ hashmap_has(SentHeaders.map, sConnection)

\* C24: the walk of remove_connection_headers reads only offsets 0..len-1
\* of the value buffer, len being the value's length plus its terminator,
\* and ends without a fault, whatever lies after the buffer.
C24_WalkReadsWithinValue ==
    WalkReached =>
        /\ pc # "fault"
        /\ \A past \in BytesPastValue :
              /\ ~value_walk(WalkedValue, past).fault
              /\ value_walk(WalkedValue, past).reads \subseteq 0..Len(WalkedValue)
=============================================================================
